---- MODULE Spec2Model ----
(***************************************************************************)
(* A model of beamline_configuration.py: the ListDict container, the       *)
(* BeamlineConfiguration.gen() pipeline (validation, input generation,     *)
(* full-combination expansion, recursive formula resolution) and the       *)
(* static split() utility.                                                 *)
(*                                                                         *)
(* Python values are tagged records [t, v]: t is the Python type and v the *)
(* payload as a sequence of integers (a scalar is a one-element payload).  *)
(* A None that sits inside a list is the item NoneItem.  Numbers are       *)
(* integers: the catalogue of settings only uses ranges whose linspace and *)
(* arange points are integral, so 1 and 1.0 are the same number, as they   *)
(* are under Python's ==.                                                  *)
(***************************************************************************)
EXTENDS Integers, Sequences, FiniteSets, TLC

\* ------------------------------------------------------------------ bounds

\* longest list a ListDict item assignment is tried with
MaxListLen == 3
\* depth at which the interpreter stops a runaway recursion (RecursionError);
\* CPython's limit is about 1000 frames, the model keeps it small
RecursionLimit == 5
\* number of points of the settings' linspace range
LinspaceSteps == 3
\* longest key (in characters) handed to split
MaxKeyLen == 4

\* ------------------------------------------------------------------ values

NoneItem == -1

None == [t |-> "none", v |-> <<>>]

Num(x) == [t |-> "num", v |-> <<x>>]

List(s) == [t |-> "list", v |-> s]

\* a value that is neither None, a scalar nor a list: the empty mapping {}
EmptyDict == [t |-> "dict", v |-> <<>>]

Iota(n) == [i \in 1..n |-> i]

IsList(val) == val.t = "list"

\* dict assignment d[key] = val (dict.__setitem__)
DictSet(d, key, val) == [k \in (DOMAIN d) \cup {key} |-> IF k = key THEN val ELSE d[k]]

\* dict.update(m): the keys of m overwrite those of d
DictUpdate(d, m) == [k \in (DOMAIN d) \cup (DOMAIN m) |-> IF k \in DOMAIN m THEN m[k] ELSE d[k]]

EmptyMap == [k \in {} |-> None]

\* ---------------------------------------------------------------- ListDict

\* lengths = [len(v) for v in self.values() if isinstance(v, list)]
Lengths(d) == {Len(d[k].v) : k \in {x \in DOMAIN d : IsList(d[x])}}

\* mutant of CheckLengthsRaises: the lengths are never compared
CheckLengthsNever(d) == FALSE

\* ListDict._check_lengths: TRUE when it raises ValueError
CheckLengthsRaises(d) == Cardinality(Lengths(d)) > 1

\* the isinstance test of ListDict.__setitem__: TRUE when it raises TypeError
SetItemTypeError(val) == val.t \notin {"none", "list", "num"}

\* ListDict.__setitem__: the resulting mapping and the exception raised ("" for none).
\* The item is stored before the lengths are checked.
SetItem(d, key, val) ==
    IF SetItemTypeError(val)
    THEN [d |-> d, exc |-> "TypeError"]
    ELSE LET nd == DictSet(d, key, val)
         IN [d |-> nd, exc |-> IF CheckLengthsRaises(nd) THEN "ValueError" ELSE ""]

\* ListDict.__init__ on an existing object (dict.__init__ updates it) and the check
InitDict(d, m) ==
    LET nd == DictUpdate(d, m)
    IN [d |-> nd, exc |-> IF CheckLengthsRaises(nd) THEN "ValueError" ELSE ""]

\* ListDict.__iter__: the number of snapshots an iteration yields: the length of the
\* first list value, else 1 when every value is a scalar, else 0
IterCount(dd) ==
    IF \E k \in DOMAIN dd : IsList(dd[k])
    THEN Len(dd[CHOOSE k \in DOMAIN dd : IsList(dd[k])].v)
    ELSE IF \A k \in DOMAIN dd : dd[k].t = "num" THEN 1 ELSE 0

\* ListDict.__next__: the snapshot at index i (from 1): a list gives its i-th item
Snapshot(dd, i) ==
    [k \in DOMAIN dd |->
        IF IsList(dd[k])
        THEN (IF dd[k].v[i] = NoneItem THEN None ELSE Num(dd[k].v[i]))
        ELSE dd[k]]

\* ---------------------------------------------------------------- settings

Names == {"v1", "v2", "v3"}

\* an InputSpec / OutputSpec mapping: its key set and the values under the keys
InSpec(keys, value, lo, hi, n, step) ==
    [keys |-> keys, value |-> value, min |-> lo, max |-> hi, number_steps |-> n, step_size |-> step]

NoIn == InSpec({}, None, 0, 0, 0, 0)

Formula(op, refs) == [op |-> op, refs |-> refs]

OutSpec(keys, f) == [keys |-> keys, function |-> f]

NoOut == OutSpec({}, Formula("", <<>>))

\* one settings entry: its top-level key set and the mappings under input and output
Entry(top, in, out) == [top |-> top, input |-> in, output |-> out]

\* "x*2" over one variable
Mul2(r) == OutSpec({"function"}, Formula("mul2", <<r>>))

\* "v1+v2"
AddV1V2 == OutSpec({"function"}, Formula("add", <<"v1", "v2">>))

InScalar == InSpec({"value"}, Num(5), 0, 0, 0, 0)
InList2 == InSpec({"value"}, List(<<1, 2>>), 0, 0, 0, 0)
InList0 == InSpec({"value"}, List(<<>>), 0, 0, 0, 0)
InLinspace == InSpec({"min", "max", "number_steps"}, None, 0, LinspaceSteps - 1, LinspaceSteps, 0)
InArange == InSpec({"min", "max", "step_size"}, None, 1, 2, 0, 1)
InEmpty == InSpec({}, None, 0, 0, 0, 0)
InMinMax == InSpec({"min", "max"}, None, 0, 2, 0, 0)
InUnknownKey == InSpec({"min", "max", "steps"}, None, 0, 2, 3, 0)

\* the entries a variable of the settings is drawn from
Catalog ==
    { Entry({"input"}, i, NoOut) :
        i \in {InScalar, InList2, InList0, InLinspace, InArange, InEmpty, InMinMax, InUnknownKey} }
    \cup { Entry({"output"}, NoIn, Mul2(r)) : r \in Names }
    \cup { Entry({"output"}, NoIn, AddV1V2),
           Entry({"bogus"}, NoIn, NoOut),
           Entry({"input", "output"}, InScalar, NoOut),
           Entry({"input", "output"}, InLinspace, Mul2("v1")),
           Entry({"input", "output"}, InEmpty, Mul2("v1")),
           Entry({"output"}, NoIn, OutSpec({"function", "units"}, Formula("mul2", <<"v1">>))) }

\* the declaration orders of the settings keys (dict order)
Orders == {o \in [1..Cardinality(Names) -> Names] : \A a, b \in DOMAIN o : o[a] = o[b] => a = b}

\* frozenset(val.get('input', {}).keys())
InputKeys(e) == IF "input" \in e.top THEN e.input.keys ELSE {}

\* frozenset(val.get('output', {}).keys())
OutputKeys(e) == IF "output" \in e.top THEN e.output.keys ELSE {}

\* -------------------------------------------------------------- validation

AllowedInputKeys == {"value", "min", "max", "number_steps", "step_size"}

\* mutant of BadKeys: the top-level key set is not tested
BadKeysNoTop(e) ==
    IF InputKeys(e) \ AllowedInputKeys # {} THEN InputKeys(e) \ AllowedInputKeys
    ELSE OutputKeys(e) \ {"function"}

\* mutant of BadKeys: the input key set is not tested
BadKeysNoInput(e) ==
    IF ~(e.top \subseteq {"input", "output"}) THEN e.top
    ELSE OutputKeys(e) \ {"function"}

\* the keys gen's validation reports for one entry ({} when the entry passes):
\* the first of the three tests that fails decides
BadKeys(e) ==
    IF ~(e.top \subseteq {"input", "output"}) THEN e.top
    ELSE IF InputKeys(e) \ AllowedInputKeys # {} THEN InputKeys(e) \ AllowedInputKeys
    ELSE OutputKeys(e) \ {"function"}

\* the positions (in declaration order) of the entries validation rejects
Offending(s, o) == {i \in DOMAIN o : BadKeys(s[o[i]]) # {}}

\* __check_nested_keys: raises for the first offending entry of the loop
CheckNestedKeys(s, o) ==
    IF Offending(s, o) = {}
    THEN [raises |-> FALSE, key |-> "", nested |-> {}]
    ELSE LET i == CHOOSE x \in Offending(s, o) : \A y \in Offending(s, o) : x <= y
         IN [raises |-> TRUE, key |-> o[i], nested |-> BadKeys(s[o[i]])]

\* --------------------------------------------------------- value generator

\* the key sets of __process_initial_values' switcher
Shapes == { {}, {"value"}, {"min", "max", "number_steps"}, {"min", "max", "step_size"} }

\* np.linspace(lo, hi, n).tolist()
Linspace(lo, hi, n) ==
    IF n = 1 THEN <<lo>> ELSE [i \in 1..n |-> lo + ((i - 1) * (hi - lo)) \div (n - 1)]

\* np.arange(lo, hi + step/2, step).tolist(): the points lo + i*step below hi + step/2
Arange(lo, hi, step) ==
    LET n == Cardinality({i \in 0..(hi - lo + step) : 2 * (lo + i * step) < 2 * hi + step})
    IN [i \in 1..n |-> lo + (i - 1) * step]

\* switcher[input_keys](val.get('input')), for a key set of the switcher
Generate(e) ==
    LET k == InputKeys(e)
    IN IF k = {} THEN None
       ELSE IF k = {"value"} THEN e.input.value
       ELSE IF k = {"min", "max", "number_steps"}
            THEN List(Linspace(e.input.min, e.input.max, e.input.number_steps))
       ELSE List(Arange(e.input.min, e.input.max, e.input.step_size))

\* the positions whose key set the switcher lacks (KeyError)
Unsupported(s, o) == {i \in DOMAIN o : InputKeys(s[o[i]]) \notin Shapes}

\* __process_initial_values: the loop fills the input dict in declaration order and
\* stops with KeyError at the first key set the switcher lacks
ProcessInitialValues(inp, s, o) ==
    LET stop == IF Unsupported(s, o) = {} THEN Len(o) + 1
                ELSE CHOOSE x \in Unsupported(s, o) : \A y \in Unsupported(s, o) : x <= y
        done == {o[i] : i \in 1..(stop - 1)}
    IN [d |-> [k \in DOMAIN inp |-> IF k \in done THEN Generate(s[k]) ELSE inp[k]],
        exc |-> IF stop <= Len(o) THEN "KeyError" ELSE ""]

\* -------------------------------------------------------------- expansion

\* __get_independent_var: the keys with an input entry, in declaration order
IndependentVar(s, o) == SelectSeq(o, LAMBDA k : "input" \in s[k].top)

\* np.array(x).reshape(-1): a scalar or None becomes a one-element array
Flatten(val) ==
    IF val.t = "none" THEN <<NoneItem>> ELSE val.v

RECURSIVE Product(_)
\* list(itertools.product(*args)): the last axis varies fastest
Product(axes) ==
    IF Len(axes) = 0 THEN << <<>> >>
    ELSE LET rest == Product(Tail(axes))
             h == Head(axes)
         IN IF Len(rest) = 0 THEN <<>>
            ELSE [j \in 1..(Len(h) * Len(rest)) |->
                    <<h[((j - 1) \div Len(rest)) + 1]>> \o rest[((j - 1) % Len(rest)) + 1]]

\* arr.tolist() of one column, collapsed to its item when it has one item
Collapse(col) ==
    IF Len(col) = 1
    THEN (IF col[1] = NoneItem THEN None ELSE Num(col[1]))
    ELSE List(col)

\* __populate_initial_values: zip(ind_vars, temp_arr.T) has no pair when there is no
\* independent variable (shape (1,0)) or no combination (shape (0,))
PopulateInitialValues(inp, s, o) ==
    LET ind == IndependentVar(s, o)
        combos == Product([j \in 1..Len(ind) |-> Flatten(inp[ind[j]])])
        pos(k) == CHOOSE j \in 1..Len(ind) : ind[j] = k
    IN IF Len(ind) = 0 \/ Len(combos) = 0 THEN inp
       ELSE [k \in DOMAIN inp |->
               IF "input" \in s[k].top
               THEN Collapse([i \in 1..Len(combos) |-> combos[i][pos(k)]])
               ELSE inp[k]]

\* ------------------------------------------------------- formula evaluator

\* a value numpy cannot do arithmetic on: None, or an object array holding None
HasNone(val) == val.t = "none" \/ \E i \in DOMAIN val.v : val.v[i] = NoneItem

\* eval("np.array(a)*2").tolist()
EvalMul2(a) ==
    IF HasNone(a) THEN [val |-> None, exc |-> "TypeError"]
    ELSE [val |-> [t |-> a.t, v |-> [i \in 1..Len(a.v) |-> 2 * a.v[i]]], exc |-> ""]

\* eval("np.array(a)+np.array(b)").tolist(), with numpy's broadcasting: a scalar or a
\* one-item list stretches to the other operand's length
EvalAdd(a, b) ==
    LET la == Len(a.v)
        lb == Len(b.v)
        n == IF la = 1 THEN lb ELSE la
        at(x, i) == IF Len(x.v) = 1 THEN x.v[1] ELSE x.v[i]
    IN IF HasNone(a) \/ HasNone(b) THEN [val |-> None, exc |-> "TypeError"]
       ELSE IF a.t = "num" /\ b.t = "num" THEN [val |-> Num(a.v[1] + b.v[1]), exc |-> ""]
       ELSE IF la # lb /\ la # 1 /\ lb # 1 THEN [val |-> None, exc |-> "ValueError"]
       ELSE [val |-> List([i \in 1..n |-> at(a, i) + at(b, i)]), exc |-> ""]

\* __eval_function on the substituted formula: vals are the values of its references
EvalFunction(f, vals) ==
    IF f.op = "mul2" THEN EvalMul2(vals[1]) ELSE EvalAdd(vals[1], vals[2])

\* mutant of NeedsTransform: a reference is never transformed first
NeedsTransformNever(inp, ref) == FALSE

\* mutant of NeedsTransform: every reference is transformed first
NeedsTransformAlways(inp, ref) == TRUE

\* the test of __process_function_string: a reference without an input value is
\* resolved by transforming it first
NeedsTransform(inp, ref) == inp[ref] = None

\* switcher_input of __transform_initial_values for an entry without a function:
\* the input value when there is no output key, else the output mapping itself
SwitcherInput(inp, s, key) ==
    IF "output" \notin s[key].top THEN inp[key] ELSE EmptyDict

\* ------------------------------------------------------------------- state

VARIABLES
    settings,        \* self.settings: variable name -> entry
    order,           \* the declaration order of the settings keys
    matched_lengths, \* gen's argument
    pc,              \* where gen is
    input_dict,      \* self.__input_dict
    output_dict,     \* self.__output_dict
    idx,             \* position of gen's loop over settings.items()
    stack,           \* the nested __transform_initial_values calls
    raised,          \* the exception that left gen ("" for none)
    message,         \* the key named by the reported unexpected-key error
    ld,              \* a ListDict under construction and item assignment
    ldexc,           \* the exception of the last ListDict operation
    d,               \* split's argument, as its items in order
    result,          \* split's result dict: group -> suffix -> value
    sk,              \* position of split's loop over d.items()
    ret              \* what split returned

genvars == <<settings, order, matched_lengths, pc, input_dict, output_dict, idx, stack, raised, message>>

ldvars == <<ld, ldexc>>

splitvars == <<d, result, sk, ret>>

vars == <<genvars, ldvars, splitvars>>

\* __create_dict: every settings key with value None
CreateDict == [k \in Names |-> None]

\* __create_ListDict: ListDict({}) re-initialised with every settings key and None
CreateListDict == InitDict(EmptyMap, [k \in Names |-> None]).d

Frame(key) == [key |-> key, i |-> 1, vals |-> <<>>]

Top == stack[Len(stack)]

HasFunction(key) == OutputKeys(settings[key]) = {"function"}

TopRefs == settings[Top.key].output.function.refs

GenInit ==
    /\ settings \in [Names -> Catalog]
    /\ order \in Orders
    /\ matched_lengths \in BOOLEAN
    /\ pc = "Created"
    /\ input_dict = CreateDict
    /\ output_dict = CreateListDict
    /\ idx = 1
    /\ stack = <<>>
    /\ raised = ""
    /\ message = ""

LdIdle == ld = EmptyMap /\ ldexc = ""

SplitIdle == d = <<>> /\ result = EmptyMap /\ sk = 1 /\ ret = "running"

Init == GenInit /\ LdIdle /\ SplitIdle

\* gen: fresh dictionaries, then __check_nested_keys; the error is caught and printed
GenValidate ==
    /\ pc = "Created"
    /\ input_dict' = CreateDict
    /\ output_dict' = CreateListDict
    /\ LET c == CheckNestedKeys(settings, order)
       IN IF c.raises
          THEN pc' = "Errored" /\ message' = c.key
          ELSE pc' = "Validated" /\ UNCHANGED message
    /\ UNCHANGED <<ldvars, splitvars, settings, order, matched_lengths, idx, stack, raised>>

\* gen: __process_initial_values; its KeyError is not caught
GenProcess ==
    /\ pc = "Validated"
    /\ LET r == ProcessInitialValues(input_dict, settings, order)
       IN /\ input_dict' = r.d
          /\ raised' = r.exc
          /\ pc' = IF r.exc = "" THEN "InputsGenerated" ELSE "Raised"
    /\ UNCHANGED <<ldvars, splitvars, settings, order, matched_lengths, output_dict, idx, stack, message>>

\* gen: __populate_initial_values, skipped with matched_lengths
GenPopulate ==
    /\ pc = "InputsGenerated"
    /\ ~matched_lengths
    /\ input_dict' = PopulateInitialValues(input_dict, settings, order)
    /\ pc' = "Expanded"
    /\ UNCHANGED <<ldvars, splitvars, settings, order, matched_lengths, output_dict, idx, stack, raised, message>>

LoopReady ==
    \/ pc = "Resolving"
    \/ pc = "Expanded"
    \/ pc = "InputsGenerated" /\ matched_lengths

\* gen's loop calls __transform_initial_values(key, val) for the next key
TransformCall ==
    /\ LoopReady
    /\ stack = <<>>
    /\ idx <= Len(order)
    /\ stack' = <<Frame(order[idx])>>
    /\ pc' = "Resolving"
    /\ UNCHANGED <<ldvars, splitvars, settings, order, matched_lengths, input_dict, output_dict, idx, raised, message>>

\* the end of a __transform_initial_values call that assigned r = SetItem(...):
\* the exception leaves gen, else the call returns to gen's loop or to the
\* __process_function_string that made it, which reads the output value
Finish(r) ==
    /\ output_dict' = r.d
    /\ IF r.exc # ""
       THEN /\ pc' = "Raised"
            /\ raised' = r.exc
            /\ UNCHANGED <<idx, stack>>
       ELSE /\ UNCHANGED <<pc, raised>>
            /\ IF Len(stack) = 1
               THEN stack' = <<>> /\ idx' = idx + 1
               ELSE /\ UNCHANGED idx
                    /\ LET caller == stack[Len(stack) - 1]
                       IN stack' = Append(SubSeq(stack, 1, Len(stack) - 2),
                                          [caller EXCEPT !.i = @ + 1,
                                                         !.vals = Append(@, r.d[Top.key])])

\* __transform_initial_values for an entry whose output key set is empty
PassThrough ==
    /\ pc = "Resolving"
    /\ stack # <<>>
    /\ OutputKeys(settings[Top.key]) = {}
    /\ Finish(SetItem(output_dict, Top.key, SwitcherInput(input_dict, settings, Top.key)))
    /\ UNCHANGED <<ldvars, splitvars, settings, order, matched_lengths, input_dict, message>>

\* __process_function_string: a reference with an input value is substituted
Substitute ==
    /\ pc = "Resolving"
    /\ stack # <<>>
    /\ HasFunction(Top.key)
    /\ Top.i <= Len(TopRefs)
    /\ ~NeedsTransform(input_dict, TopRefs[Top.i])
    /\ stack' = [stack EXCEPT ![Len(stack)] =
                    [@ EXCEPT !.i = @ + 1, !.vals = Append(@, input_dict[TopRefs[Top.i]])]]
    /\ UNCHANGED <<ldvars, splitvars, settings, order, matched_lengths, pc, input_dict, output_dict, idx, raised, message>>

\* __process_function_string: a reference without an input value is transformed
\* first; the interpreter ends a recursion that grows past its limit
Recurse ==
    /\ pc = "Resolving"
    /\ stack # <<>>
    /\ HasFunction(Top.key)
    /\ Top.i <= Len(TopRefs)
    /\ NeedsTransform(input_dict, TopRefs[Top.i])
    /\ IF Len(stack) >= RecursionLimit
       THEN pc' = "Raised" /\ raised' = "RecursionError" /\ UNCHANGED stack
       ELSE stack' = Append(stack, Frame(TopRefs[Top.i])) /\ UNCHANGED <<pc, raised>>
    /\ UNCHANGED <<ldvars, splitvars, settings, order, matched_lengths, input_dict, output_dict, idx, message>>

\* __eval_function once every reference is substituted, and the assignment of
\* its result to the output container
Evaluate ==
    /\ pc = "Resolving"
    /\ stack # <<>>
    /\ HasFunction(Top.key)
    /\ Top.i > Len(TopRefs)
    /\ LET e == EvalFunction(settings[Top.key].output.function, Top.vals)
       IN IF e.exc # ""
          THEN Finish([d |-> output_dict, exc |-> e.exc])
          ELSE Finish(SetItem(output_dict, Top.key, e.val))
    /\ UNCHANGED <<ldvars, splitvars, settings, order, matched_lengths, input_dict, message>>

\* gen returns the output container
GenReturn ==
    /\ pc = "Resolving"
    /\ stack = <<>>
    /\ idx > Len(order)
    /\ pc' = "Done"
    /\ UNCHANGED <<ldvars, splitvars, settings, order, matched_lengths, input_dict, output_dict, idx, stack, raised, message>>

Next ==
    \/ GenValidate
    \/ GenProcess
    \/ GenPopulate
    \/ TransformCall
    \/ PassThrough
    \/ Substitute
    \/ Recurse
    \/ Evaluate
    \/ GenReturn

Spec == Init /\ [][Next]_vars

\* ------------------------------------------- ListDict on its own (SpecListDict)

LdKeys == {"a", "b", "c"}

\* the values an item assignment or a construction is tried with
LdValues == {None, Num(0), EmptyDict} \cup {List(Iota(n)) : n \in 0..MaxListLen}

LdMappings == UNION {[ks -> LdValues] : ks \in SUBSET LdKeys}

GenIdle ==
    /\ settings = [k \in Names |-> Entry({}, NoIn, NoOut)]
    /\ order = <<>>
    /\ matched_lengths = FALSE
    /\ pc = "Idle"
    /\ input_dict = CreateDict
    /\ output_dict = CreateListDict
    /\ idx = 1
    /\ stack = <<>>
    /\ raised = ""
    /\ message = ""

LdInit == GenIdle /\ LdIdle /\ SplitIdle

\* ListDict(m): a construction that raises binds no new object
LdConstruct ==
    \E m \in LdMappings :
        LET r == InitDict(EmptyMap, m)
        IN /\ ld' = IF r.exc = "" THEN r.d ELSE ld
           /\ ldexc' = r.exc
           /\ UNCHANGED <<genvars, splitvars>>

\* ld[key] = val
LdSetItem ==
    \E key \in LdKeys, val \in LdValues :
        LET r == SetItem(ld, key, val)
        IN /\ ld' = r.d
           /\ ldexc' = r.exc
           /\ UNCHANGED <<genvars, splitvars>>

LdNext == LdConstruct \/ LdSetItem

SpecListDict == LdInit /\ [][LdNext]_vars

\* --------------------------------------------------- split (SpecSplit)

\* a key is the sequence of its characters
Alphabet == {"a", "_"}

SplitKeys == UNION {[1..n -> Alphabet] : n \in 1..MaxKeyLen}

SplitValues == {Num(1), List(<<1, 2>>), List(<<1, 2, 3>>)}

Original == <<"o", "r", "i", "g", "i", "n", "a", "l">>

\* the positions where '__' starts in k
DelimAt(k) == {i \in 1..(Len(k) - 1) : k[i] = "_" /\ k[i + 1] = "_"}

\* '__' in k
HasDelim(k) == DelimAt(k) # {}

RECURSIVE StrSplit(_)
\* k.split('__'): cut at each occurrence, found left to right without overlap
StrSplit(k) ==
    IF ~HasDelim(k) THEN <<k>>
    ELSE LET i == CHOOSE x \in DelimAt(k) : \A y \in DelimAt(k) : x <= y
         IN <<SubSeq(k, 1, i - 1)>> \o StrSplit(SubSeq(k, i + 2, Len(k)))

\* result[group][name] = v, creating the group when it is new
PutInGroup(res, group, name, v) ==
    DictSet(res, group, DictSet(IF group \in DOMAIN res THEN res[group] ELSE EmptyMap, name, v))

SplitItems == [k : SplitKeys, v : SplitValues]

\* split's arguments: up to two items with distinct keys
SplitArgs ==
    {<<>>}
    \cup {<<x>> : x \in SplitItems}
    \cup {a \in [1..2 -> SplitItems] : a[1].k # a[2].k}

SplitInit == GenIdle /\ LdIdle /\ d \in SplitArgs /\ result = EmptyMap /\ sk = 1 /\ ret = "running"

\* one round of split's loop over d.items(); unpacking k.split('__') into
\* prefix, suffix raises ValueError unless it has two parts
SplitStep ==
    /\ ret = "running"
    /\ sk <= Len(d)
    /\ LET k == d[sk].k
           parts == StrSplit(k)
       IN IF HasDelim(k)
          THEN IF Len(parts) # 2
               THEN ret' = "ValueError" /\ UNCHANGED <<result, sk>>
               ELSE /\ result' = PutInGroup(result, parts[1], parts[2], d[sk].v)
                    /\ sk' = sk + 1
                    /\ UNCHANGED ret
          ELSE /\ result' = PutInGroup(result, Original, k, d[sk].v)
               /\ sk' = sk + 1
               /\ UNCHANGED ret
    /\ UNCHANGED <<genvars, ldvars, d>>

\* after the loop: d itself when result is empty, else result with every group
\* rebuilt as a ListDict (whose construction checks the lengths)
SplitReturn ==
    /\ ret = "running"
    /\ sk > Len(d)
    /\ ret' = IF result = EmptyMap THEN "d"
              ELSE IF \E g \in DOMAIN result : InitDict(EmptyMap, result[g]).exc # ""
                   THEN "ValueError"
                   ELSE "result"
    /\ UNCHANGED <<genvars, ldvars, d, result, sk>>

SplitNext == SplitStep \/ SplitReturn

SpecSplit == SplitInit /\ [][SplitNext]_vars

\* ==================================================================== claims

AllNone(dd) == \A k \in DOMAIN dd : dd[k] = None

\* the position of key k in the declaration order
Pos(k) == CHOOSE i \in DOMAIN order : order[i] = k

\* the __transform_initial_values call gen's loop makes for k has ended, by
\* returning or by raising
Finished(k) ==
    \/ pc = "Done"
    \/ pc = "Resolving" /\ Pos(k) < idx
    \/ pc = "Raised" /\ stack # <<>> /\ Len(stack) = 1 /\ Top.key = k

\* --- C1

\* C1: at every observable state of a ListDict, after any constructions and item
\* assignments, accepted or rejected, its list values have at most one length.
C1_UniformLengths == Cardinality(Lengths(ld)) <= 1

\* --- C2

ValLen(val) == IF IsList(val) THEN Len(val.v) ELSE 1

RECURSIVE ProductOfLens(_)
ProductOfLens(vals) ==
    IF Len(vals) = 0 THEN 1 ELSE ValLen(Head(vals)) * ProductOfLens(Tail(vals))

\* the candidates of the independent variables, in declaration order
Candidates ==
    LET ind == IndependentVar(settings, order)
    IN [j \in 1..Len(ind) |-> Generate(settings[ind[j]])]

\* the tuples of the Cartesian product of the candidate lists, as a set
CandidateTuples ==
    LET items(j) == {Flatten(Candidates[j])[i] : i \in DOMAIN Flatten(Candidates[j])}
    IN {t \in [DOMAIN Candidates -> UNION {items(j) : j \in DOMAIN Candidates}] :
            \A j \in DOMAIN Candidates : t[j] \in items(j)}

\* the independent variables' values in the i-th snapshot of an iteration of dd
Row(dd, i) ==
    LET ind == IndependentVar(settings, order)
        snap == Snapshot(dd, i)
    IN [j \in 1..Len(ind) |-> IF snap[ind[j]] = None THEN NoneItem ELSE snap[ind[j]].v[1]]

AllIndependentPassThrough ==
    \A k \in Names : "input" \in settings[k].top => "output" \notin settings[k].top

\* C2: in full-combination mode every independent variable's expanded value has length
\* the product of the candidates' cardinalities (a scalar counts 1), and iterating the
\* result yields that many tuples of independent-variable values, each tuple of the
\* Cartesian product of the candidate lists exactly once.
C2_FullCombination ==
    (~matched_lengths /\ \A k \in Names : "input" \in settings[k].top => InputKeys(settings[k]) # {}) =>
        /\ pc = "Expanded" =>
             \A k \in Names : "input" \in settings[k].top =>
                ValLen(input_dict[k]) = ProductOfLens(Candidates)
        /\ (pc = "Done" /\ AllIndependentPassThrough) =>
             /\ IterCount(output_dict) = ProductOfLens(Candidates)
             /\ \A t \in CandidateTuples :
                  Cardinality({i \in 1..IterCount(output_dict) : Row(output_dict, i) = t}) = 1

\* --- C3

Err == [t |-> "error", v |-> <<>>]

RECURSIVE Expected(_, _)
\* the value of variable k by the formulas alone, whatever the declaration order:
\* a formula applied to its references' input values or, for a reference without
\* one, to the reference's own expected value; Err when that has no value
Expected(k, fuel) ==
    IF ~HasFunction(k)
    THEN (IF "output" \in settings[k].top THEN Err ELSE input_dict[k])
    ELSE IF fuel = 0 THEN Err
    ELSE LET f == settings[k].output.function
             args == [j \in 1..Len(f.refs) |->
                        IF input_dict[f.refs[j]] # None THEN input_dict[f.refs[j]]
                        ELSE Expected(f.refs[j], fuel - 1)]
         IN IF \E j \in DOMAIN args : args[j] = Err THEN Err
            ELSE IF EvalFunction(f, args).exc # "" THEN Err
            ELSE EvalFunction(f, args).val

ExpectedValue(k) == Expected(k, Cardinality(Names))

\* A is a derived variable whose formula references the derived variable B
DerivedChain(A, B) ==
    /\ settings[A].top = {"output"} /\ HasFunction(A)
    /\ settings[B].top = {"output"} /\ HasFunction(B)
    /\ A # B
    /\ \E j \in DOMAIN settings[A].output.function.refs : settings[A].output.function.refs[j] = B

\* every variable has a value by the formulas, and the list values have one length
Resolvable ==
    /\ Offending(settings, order) = {}
    /\ Unsupported(settings, order) = {}
    /\ \A k \in Names : ExpectedValue(k) # Err
    /\ Cardinality({Len(ExpectedValue(k).v) : k \in {x \in Names : IsList(ExpectedValue(x))}}) <= 1

\* C3: for a derived variable A whose formula references a derived variable B, gen
\* gives A and B the values their formulas give, A's applied to B's value, whether B
\* is declared before or after A; and gen does not raise when every variable resolves.
C3_TransitiveResolution ==
    \A A, B \in Names : DerivedChain(A, B) =>
        /\ pc = "Done" =>
             /\ output_dict[B] = ExpectedValue(B)
             /\ output_dict[A] = ExpectedValue(A)
             /\ output_dict[A] = EvalFunction(settings[A].output.function,
                                    [j \in DOMAIN settings[A].output.function.refs |->
                                        LET r == settings[A].output.function.refs[j]
                                        IN IF input_dict[r] # None THEN input_dict[r] ELSE output_dict[r]]).val
        /\ Resolvable => pc # "Raised"

\* gen returned with A declared before the B it references: B was resolved on demand
C3_Witness ==
    /\ pc = "Done"
    /\ \E A, B \in Names : DerivedChain(A, B) /\ Pos(A) < Pos(B)

\* --- C4

\* C4: a variable with an empty output mapping or no output key ends with the value
\* of its resolved input.
C4_PassThrough ==
    \A k \in Names :
        (OutputKeys(settings[k]) = {} /\ Finished(k)) => output_dict[k] = input_dict[k]

\* --- C5

\* the lengths of the list-valued generated inputs of the independent variables in ks
InputLengths(ks) ==
    {Len(Generate(settings[k]).v) :
        k \in {x \in ks : "input" \in settings[x].top /\ IsList(Generate(settings[x]))}}

\* C5 as stated: in matched-length mode nothing is expanded and, when gen returns, the
\* list-valued independent variables' generated inputs and the list values of the
\* returned container all have one length.
C5_Original ==
    (matched_lengths /\ pc = "Done") =>
        /\ \A k \in Names : input_dict[k] = Generate(settings[k])
        /\ Cardinality(InputLengths(Names) \cup Lengths(output_dict)) <= 1

\* C5 amended: in matched-length mode nothing is expanded and, when gen returns, the
\* list values of the returned container and the generated inputs of the list-valued
\* independent variables that have no output formula all have one length.
C5_MatchedLengths ==
    matched_lengths =>
        /\ pc \in {"InputsGenerated", "Resolving", "Done"} =>
             \A k \in Names : input_dict[k] = Generate(settings[k])
        /\ pc = "Done" =>
             Cardinality(InputLengths({k \in Names : ~HasFunction(k)}) \cup Lengths(output_dict)) <= 1

\* gen returned in matched-length mode with two list-valued pass-through inputs
C5_Witness ==
    /\ matched_lengths
    /\ pc = "Done"
    /\ \E a, b \in Names :
         /\ a # b
         /\ settings[a].top = {"input"} /\ settings[b].top = {"input"}
         /\ IsList(input_dict[a]) /\ IsList(input_dict[b])
         /\ Len(input_dict[a].v) >= 2

\* --- C6

HasUnexpectedTopKey == \E k \in Names : ~(settings[k].top \subseteq {"input", "output"})

\* C6: with a key outside {input, output} in some entry, gen raises nothing, generates,
\* expands and resolves nothing, and ends reporting the error with the output
\* container still holding None for every key.
C6_StructuralErrorCaught ==
    HasUnexpectedTopKey =>
        /\ pc \in {"Created", "Errored"}
        /\ raised = ""
        /\ AllNone(input_dict)
        /\ AllNone(output_dict)
        /\ stack = <<>>
        /\ pc = "Errored" => message \in Names /\ BadKeys(settings[message]) # {}

C6_Witness ==
    /\ pc = "Errored"
    /\ HasUnexpectedTopKey
    /\ ~(settings[message].top \subseteq {"input", "output"})

\* --- C7

\* C7 as stated: an entry whose input key set is none of the four shapes makes the
\* validation step raise the unexpected-key error, before any input is generated.
C7_Original ==
    (\E k \in Names : InputKeys(settings[k]) \notin Shapes) =>
        /\ pc \in {"Created", "Errored"}
        /\ AllNone(input_dict)

HasUnknownInputKey == \E k \in Names : ~(InputKeys(settings[k]) \subseteq AllowedInputKeys)

\* C7 amended: an entry whose input mapping has a key outside {value, min, max,
\* number_steps, step_size} makes the validation step raise the unexpected-key error,
\* naming the first offending variable, before any input is generated, and gen catches
\* it; a key set of allowed keys that is none of the four shapes passes validation
\* and ends input generation with a KeyError that leaves gen.
C7_UnexpectedInputKey ==
    /\ HasUnknownInputKey =>
         /\ pc \in {"Created", "Errored"}
         /\ raised = ""
         /\ AllNone(input_dict)
         /\ pc = "Errored" =>
              /\ BadKeys(settings[message]) # {}
              /\ \A i \in 1..(Pos(message) - 1) : BadKeys(settings[order[i]]) = {}
    /\ (Offending(settings, order) = {} /\ Unsupported(settings, order) # {}) =>
         /\ pc \in {"Created", "Validated", "Raised"}
         /\ pc = "Raised" => raised = "KeyError" /\ AllNone(output_dict)

\* the error reported names a variable whose input mapping has an unknown key
C7_Witness ==
    /\ pc = "Errored"
    /\ settings[message].top \subseteq {"input", "output"}
    /\ ~(InputKeys(settings[message]) \subseteq AllowedInputKeys)

\* --- C8

\* C8: for a container none of whose keys contains '__', split returns the container
\* itself, unchanged.
C8_SplitNoOp ==
    (ret # "running" /\ \A i \in DOMAIN d : ~HasDelim(d[i].k)) => ret = "d"

\* --- C9

\* C9: the expansion leaves every None input None, and changes nothing when there is
\* no independent variable.
C9_NoneStaysNone ==
    (pc = "Expanded") =>
        /\ \A k \in Names : Generate(settings[k]) = None => input_dict[k] = None
        /\ IndependentVar(settings, order) = <<>> =>
             \A k \in Names : input_dict[k] = Generate(settings[k])

\* --- C10

\* the variables k's formula references
RefSet(k) ==
    IF HasFunction(k)
    THEN {settings[k].output.function.refs[j] : j \in DOMAIN settings[k].output.function.refs}
    ELSE {}

RECURSIVE Reach(_, _, _)
\* the variables of N reached from S by one or more references, each into N
Reach(S, N, fuel) ==
    IF fuel = 0 THEN {}
    ELSE LET step == {r \in N : \E k \in S : r \in RefSet(k)}
         IN step \cup Reach(step, N, fuel - 1)

Cyclic(N) == \E k \in N : k \in Reach({k}, N, Cardinality(Names))

Max(S) == CHOOSE x \in S : \A y \in S : y <= x

RECURSIVE ChainLen(_, _, _)
\* the number of variables on the longest chain of references from k on through N
ChainLen(k, N, fuel) ==
    IF fuel = 0 THEN 0
    ELSE 1 + Max({ChainLen(r, N, fuel - 1) : r \in RefSet(k) \cap N} \cup {0})

\* the nested formula evaluations in progress
EvalDepth == Cardinality({i \in DOMAIN stack : HasFunction(stack[i].key)})

\* the derived variables: the entries with no input key
Derived == {k \in Names : "input" \notin settings[k].top}

\* the variables a formula's reference is resolved through on demand: those with a
\* formula and no generated input value (no input key, or an empty input mapping)
OnDemand == {k \in Names : HasFunction(k) /\ InputKeys(settings[k]) = {}}

\* C10 as stated: with validation passed and no cycle among the derived variables'
\* references, output resolution ends in Done (no error leaves it) and the nested
\* evaluations never exceed the longest chain among the derived variables.
C10_Original ==
    (Offending(settings, order) = {} /\ ~Cyclic(Derived)) =>
        /\ ~(pc = "Raised" /\ raised # "KeyError")
        /\ EvalDepth <= Max({ChainLen(k, Derived, Cardinality(Names)) : k \in Derived} \cup {0})

C10_Pre == Offending(settings, order) = {} /\ ~Cyclic(OnDemand)

C10_Bound ==
    Max({ChainLen(k, OnDemand, Cardinality(Names)) : k \in {x \in Names : HasFunction(x)}} \cup {0})

RECURSIVE Work(_, _)
RECURSIVE RefsCost(_, _, _)
\* an upper bound on the steps of one __transform_initial_values call for k: the call
\* and the assignment, and for a formula the resolution of each reference
Work(k, fuel) ==
    IF ~HasFunction(k) \/ fuel = 0 THEN 2
    ELSE 2 + RefsCost(settings[k].output.function.refs, 1, fuel - 1)

\* the steps for the references refs[from..]: one to substitute an input value, a
\* whole call for a reference without one
RefsCost(refs, from, fuel) ==
    IF from > Len(refs) THEN 0
    ELSE (IF InputKeys(settings[refs[from]]) = {} THEN Work(refs[from], fuel) ELSE 1)
         + RefsCost(refs, from + 1, fuel)

WorkOf(k) == Work(k, Cardinality(Names) + 1)

RECURSIVE LoopWork(_)
\* the steps of gen's loop from position i on
LoopWork(i) == IF i > Len(order) THEN 0 ELSE WorkOf(order[i]) + LoopWork(i + 1)

RECURSIVE StackWork(_)
\* the steps left in the calls stack[1..p]: a call waiting for the reference it is
\* resolving has the later references and its evaluation left
StackWork(p) ==
    IF p = 0 THEN 0
    ELSE LET f == stack[p]
             refs == settings[f.key].output.function.refs
             from == IF p = Len(stack) THEN f.i ELSE f.i + 1
         IN (IF HasFunction(f.key) THEN 1 + RefsCost(refs, from, Cardinality(Names)) ELSE 1)
            + StackWork(p - 1)

\* the steps gen has left, at most: 0 once it has returned or raised
Measure ==
    IF pc \in {"Done", "Raised", "Errored"} THEN 0
    ELSE IF pc = "Created" THEN 4 + LoopWork(1)
    ELSE IF pc = "Validated" THEN 3 + LoopWork(1)
    ELSE IF pc = "InputsGenerated" THEN 2 + LoopWork(1)
    ELSE 1 + StackWork(Len(stack)) + LoopWork(IF stack = <<>> THEN idx ELSE idx + 1)

\* some statement of gen can run: the guards of the actions of Next
CanStep ==
    \/ pc \in {"Created", "Validated"}
    \/ pc = "InputsGenerated" /\ ~matched_lengths
    \/ LoopReady /\ stack = <<>> /\ idx <= Len(order)
    \/ pc = "Resolving" /\ stack = <<>> /\ idx > Len(order)
    \/ pc = "Resolving" /\ stack # <<>> /\ OutputKeys(settings[Top.key]) \in {{}, {"function"}}

\* C10 amended: with validation passed and no cycle among the references of the
\* variables that have a formula and no input value, gen ends, returning or raising
\* an error other than a recursion error: it is never stuck and every step lowers a
\* bound on the steps left; and the nested evaluations never exceed the longest chain
\* of references from a variable with a formula on through such variables.
C10_Termination ==
    /\ [](C10_Pre =>
            /\ raised # "RecursionError"
            /\ EvalDepth <= C10_Bound
            /\ (pc \in {"Done", "Raised", "Errored"} \/ CanStep))
    /\ [][C10_Pre => Measure' < Measure]_vars

\* a formula evaluation nested in another is in progress
C10_Witness == C10_Pre /\ pc = "Resolving" /\ EvalDepth >= 2

====
